---- MODULE Spec2Model ----
(***************************************************************************)
(* Brazilian vehicle-plate detection, validation and progressive input     *)
(* formatting (src/src/utils/plateUtils.ts, class BrazilianPlateValidator).*)
(*                                                                         *)
(* A JavaScript string is modelled as a sequence of one-character strings. *)
(* The four static methods are operators computed the way the code         *)
(* computes them (regular expressions are matched by a small matcher over  *)
(* the pattern's items); one action per method applies it to the inputs    *)
(* drawn in Init and records the returned value.                           *)
(***************************************************************************)
EXTENDS Integers, Sequences, FiniteSets, TLC

VARIABLES
    input,          \* the string a method is called with
    format,         \* the format handed to applyMask, or null
    currentValue,   \* the display value handed to formatPlateInput
    op,             \* the method that was called last
    ret,            \* what it returned
    lastIndex,      \* lastIndex of the two static RegExp objects of the class
    saved,          \* an earlier call, with its arguments and its result
    since,          \* the number of calls made after the saved one
    plate,          \* the plate a user is typing into the form's field
    typed,          \* how many of its characters were typed
    detected,       \* the format detected while masking the field's text
    now,            \* Date.now()
    storage,        \* AsyncStorage: the item under each cache key, if any
    server,         \* the revision of the cars on the server
    reader,         \* the getAllCars or getCarById call in progress
    writer,         \* the createCar, updateCar or deleteCar call in progress
    removed,        \* the keys whose expired item a get removed, until set again
    screen,         \* the car list screen: its state, refs and route params
    load,           \* the loadCars call of the screen in progress
    effects,        \* the callbacks of the screen that are due, in order
    refresh         \* the refresh a navigation asked for: requested, then
                    \* called (getAllCars), then replaced (the cars shown)
                    \* or failed (until a later load shows the cars)

vars == <<input, format, currentValue, op, ret, lastIndex, saved, since,
          plate, typed, detected, now, storage, server, reader, writer,
          removed, screen, load, effects, refresh>>

\* the plate validator and the form's field; the cache and the service; the
\* list screen
plateVars == <<input, format, currentValue, op, ret, lastIndex, saved, since,
               plate, typed, detected>>
serviceVars == <<now, storage, server, reader, writer, removed>>
screenVars == <<screen, load, effects, refresh>>
appVars == <<serviceVars, screenVars>>

\* the state of a sequence of calls, and of the form's field
callVars == <<lastIndex, saved, since>>
fieldVars == <<plate, typed, detected>>

(***************************************************************************)
(* Bounds of the model.                                                    *)
(***************************************************************************)
\* longest raw string handed to a method
MaxLen == 8

\* the characters raw strings are made of: a letter as typed (lower case),
\* a digit and a separator
InputChars == {"b", "1", "-"}

InputStrings == UNION {[1..n -> InputChars] : n \in 0..MaxLen}

(***************************************************************************)
(* Characters.                                                             *)
(***************************************************************************)
UpperSeq ==
    <<"A", "B", "C", "D", "E", "F", "G", "H", "I", "J", "K", "L", "M",
      "N", "O", "P", "Q", "R", "S", "T", "U", "V", "W", "X", "Y", "Z">>

LowerSeq ==
    <<"a", "b", "c", "d", "e", "f", "g", "h", "i", "j", "k", "l", "m",
      "n", "o", "p", "q", "r", "s", "t", "u", "v", "w", "x", "y", "z">>

\* the character class [A-Z]
UpperAZ == {UpperSeq[i] : i \in DOMAIN UpperSeq}

\* what the i flag adds to [A-Z]
LowerAZ == {LowerSeq[i] : i \in DOMAIN LowerSeq}

\* the character class \d, which is [0-9]
Digit == {"0", "1", "2", "3", "4", "5", "6", "7", "8", "9"}

\* what /[A-Z0-9]/i matches: without the u flag, case-insensitive matching
\* adds the ASCII lower-case letters and nothing else
AlphaNumeric == UpperAZ \cup LowerAZ \cup Digit

UpperOf == [c \in LowerAZ |-> UpperSeq[CHOOSE i \in DOMAIN LowerSeq : LowerSeq[i] = c]]

\* String.prototype.toUpperCase on one character
toUpperCase(c) == IF c \in LowerAZ THEN UpperOf[c] ELSE c

(***************************************************************************)
(* Strings.                                                                *)
(***************************************************************************)
Min(a, b) == IF a < b THEN a ELSE b

\* String.prototype.slice(from, to) for 0 <= from, 0-based, `to` exclusive
slice(s, from, to) == SubSeq(s, from + 1, Min(to, Len(s)))

\* cleanInputOf without the upper-casing: input.replace(/[^A-Z0-9]/gi, '')
cleanInputOf_NoUpperCase(s) == SelectSeq(s, LAMBDA c : c \in AlphaNumeric)

\* input.replace(/[^A-Z0-9]/gi, '').toUpperCase()
cleanInputOf(s) ==
    LET kept == SelectSeq(s, LAMBDA c : c \in AlphaNumeric)
    IN  [i \in 1..Len(kept) |-> toUpperCase(kept[i])]

(***************************************************************************)
(* Regular expressions: a pattern anchored with ^ and $ is a sequence of   *)
(* items, each a character class that is taken once, or at most once when  *)
(* the item is optional (the ? quantifier).                                *)
(***************************************************************************)
One(cls) == [cls |-> cls, opt |-> FALSE]
Opt(cls) == [cls |-> cls, opt |-> TRUE]

RECURSIVE test(_, _)
\* RegExp.prototype.test for an anchored pattern
test(re, s) ==
    IF re = <<>>
    THEN s = <<>>
    ELSE \/ /\ s # <<>>
            /\ Head(s) \in Head(re).cls
            /\ test(Tail(re), Tail(s))
         \/ /\ Head(re).opt
            /\ test(Tail(re), s)

L == One(UpperAZ)
D == One(Digit)

\* OLD_PLATE_REGEX with one digit too few: /^[A-Z]{3}-?\d{3}$/
OLD_PLATE_REGEX_ThreeDigits == <<L, L, L, Opt({"-"}), D, D, D>>

\* /^[A-Z]{3}-?\d{4}$/
OLD_PLATE_REGEX == <<L, L, L, Opt({"-"}), D, D, D, D>>

\* NEW_PLATE_REGEX with one digit too few: /^[A-Z]{3}\d[A-Z]\d$/
NEW_PLATE_REGEX_OneDigit == <<L, L, L, D, L, D>>

\* NEW_PLATE_REGEX with any alphanumeric as 5th character:
\* /^[A-Z]{3}\d[A-Z0-9]\d{2}$/
NEW_PLATE_REGEX_AnyFifth == <<L, L, L, D, One(UpperAZ \cup Digit), D, D>>

\* /^[A-Z]{3}\d[A-Z]\d{2}$/
NEW_PLATE_REGEX == <<L, L, L, D, L, D, D>>

\* /^[A-Z]{3}\d$/
RE_LLLD == <<L, L, L, D>>

\* /^[A-Z]{3}\d[A-Z]$/
RE_LLLDL == <<L, L, L, D, L>>

\* RE_LLLDD with one digit too many: /^[A-Z]{3}\d{3}$/
RE_LLLDD_ThreeDigits == <<L, L, L, D, D, D>>

\* /^[A-Z]{3}\d{2}$/
RE_LLLDD == <<L, L, L, D, D>>

\* RE_LLLDLD with its last two items swapped: /^[A-Z]{3}\d\d[A-Z]$/
RE_LLLDLD_Swapped == <<L, L, L, D, D, L>>

\* /^[A-Z]{3}\d[A-Z]\d$/
RE_LLLDLD == <<L, L, L, D, L, D>>

\* RE_LLLDDD with one digit too few: /^[A-Z]{3}\d{2}$/
RE_LLLDDD_TwoDigits == <<L, L, L, D, D>>

\* /^[A-Z]{3}\d{3}$/
RE_LLLDDD == <<L, L, L, D, D, D>>

(***************************************************************************)
(* enum PlateFormat, and null.                                             *)
(***************************************************************************)
PlateFormat_OLD == "OLD"
PlateFormat_NEW == "NEW"
Null == "null"

(***************************************************************************)
(* BrazilianPlateValidator.                                                *)
(***************************************************************************)
\* detectFormat committing to OLD on the ambiguous 4-character prefix LLLD
detectFormat_EarlyOld(in) ==
    LET cleanInput == cleanInputOf(in)
        len == Len(cleanInput)
    IN  IF len = 7 /\ test(OLD_PLATE_REGEX,
                           slice(cleanInput, 0, 3) \o <<"-">> \o slice(cleanInput, 3, len))
        THEN PlateFormat_OLD
        ELSE IF len = 7 /\ test(NEW_PLATE_REGEX, cleanInput)
        THEN PlateFormat_NEW
        ELSE IF len <= 3
        THEN Null
        ELSE IF len = 4 /\ test(RE_LLLD, cleanInput)
        THEN PlateFormat_OLD
        ELSE IF len = 5 /\ test(RE_LLLDL, cleanInput)
        THEN PlateFormat_NEW
        ELSE IF len = 5 /\ test(RE_LLLDD, cleanInput)
        THEN PlateFormat_OLD
        ELSE IF len = 6 /\ test(RE_LLLDLD, cleanInput)
        THEN PlateFormat_NEW
        ELSE IF len = 6 /\ test(RE_LLLDDD, cleanInput)
        THEN PlateFormat_OLD
        ELSE Null

\* detectFormat measuring the raw input instead of the normalized one
detectFormat_RawLength(in) ==
    LET cleanInput == cleanInputOf(in)
        len == Len(in)
    IN  IF len = 7 /\ test(OLD_PLATE_REGEX,
                           slice(cleanInput, 0, 3) \o <<"-">> \o slice(cleanInput, 3, len))
        THEN PlateFormat_OLD
        ELSE IF len = 7 /\ test(NEW_PLATE_REGEX, cleanInput)
        THEN PlateFormat_NEW
        ELSE IF len <= 3
        THEN Null
        ELSE IF len = 4 /\ test(RE_LLLD, cleanInput)
        THEN Null
        ELSE IF len = 5 /\ test(RE_LLLDL, cleanInput)
        THEN PlateFormat_NEW
        ELSE IF len = 5 /\ test(RE_LLLDD, cleanInput)
        THEN PlateFormat_OLD
        ELSE IF len = 6 /\ test(RE_LLLDLD, cleanInput)
        THEN PlateFormat_NEW
        ELSE IF len = 6 /\ test(RE_LLLDDD, cleanInput)
        THEN PlateFormat_OLD
        ELSE Null

detectFormat(in) ==
    LET cleanInput == cleanInputOf(in)
        len == Len(cleanInput)
    IN  IF len = 7 /\ test(OLD_PLATE_REGEX,
                           slice(cleanInput, 0, 3) \o <<"-">> \o slice(cleanInput, 3, len))
        THEN PlateFormat_OLD
        ELSE IF len = 7 /\ test(NEW_PLATE_REGEX, cleanInput)
        THEN PlateFormat_NEW
        ELSE IF len <= 3
        THEN Null
        ELSE IF len = 4 /\ test(RE_LLLD, cleanInput)
        THEN Null
        ELSE IF len = 5 /\ test(RE_LLLDL, cleanInput)
        THEN PlateFormat_NEW
        ELSE IF len = 5 /\ test(RE_LLLDD, cleanInput)
        THEN PlateFormat_OLD
        ELSE IF len = 6 /\ test(RE_LLLDLD, cleanInput)
        THEN PlateFormat_NEW
        ELSE IF len = 6 /\ test(RE_LLLDDD, cleanInput)
        THEN PlateFormat_OLD
        ELSE Null

\* applyMask taking one character too few after the hyphen: slice(3, 6)
applyMask_ShortTail(in, fmt) ==
    LET cleanInput == cleanInputOf(in)
        detectedFormat == IF fmt # Null THEN fmt ELSE detectFormat(cleanInput)
    IN  IF Len(cleanInput) = 0
        THEN <<>>
        ELSE IF detectedFormat = Null
        THEN cleanInput
        ELSE IF detectedFormat = PlateFormat_OLD
        THEN IF Len(cleanInput) <= 3
             THEN cleanInput
             ELSE slice(cleanInput, 0, 3) \o <<"-">> \o slice(cleanInput, 3, 6)
        ELSE cleanInput

\* applyMask not truncating what follows the hyphen: slice(3)
applyMask_NoTruncation(in, fmt) ==
    LET cleanInput == cleanInputOf(in)
        detectedFormat == IF fmt # Null THEN fmt ELSE detectFormat(cleanInput)
    IN  IF Len(cleanInput) = 0
        THEN <<>>
        ELSE IF detectedFormat = Null
        THEN cleanInput
        ELSE IF detectedFormat = PlateFormat_OLD
        THEN IF Len(cleanInput) <= 3
             THEN cleanInput
             ELSE slice(cleanInput, 0, 3) \o <<"-">> \o slice(cleanInput, 3, Len(cleanInput))
        ELSE cleanInput

\* applyMask putting the hyphen in for NEW as it does for OLD
applyMask_HyphenForNew(in, fmt) ==
    LET cleanInput == cleanInputOf(in)
        detectedFormat == IF fmt # Null THEN fmt ELSE detectFormat(cleanInput)
    IN  IF Len(cleanInput) = 0
        THEN <<>>
        ELSE IF detectedFormat = Null
        THEN cleanInput
        ELSE IF Len(cleanInput) <= 3
        THEN cleanInput
        ELSE slice(cleanInput, 0, 3) \o <<"-">> \o slice(cleanInput, 3, 7)

\* applyMask losing the 4th character: slice(4, 7)
applyMask_SkipsFourth(in, fmt) ==
    LET cleanInput == cleanInputOf(in)
        detectedFormat == IF fmt # Null THEN fmt ELSE detectFormat(cleanInput)
    IN  IF Len(cleanInput) = 0
        THEN <<>>
        ELSE IF detectedFormat = Null
        THEN cleanInput
        ELSE IF detectedFormat = PlateFormat_OLD
        THEN IF Len(cleanInput) <= 3
             THEN cleanInput
             ELSE slice(cleanInput, 0, 3) \o <<"-">> \o slice(cleanInput, 4, 7)
        ELSE cleanInput

applyMask(in, fmt) ==
    LET cleanInput == cleanInputOf(in)
        detectedFormat == IF fmt # Null THEN fmt ELSE detectFormat(cleanInput)
    IN  IF Len(cleanInput) = 0
        THEN <<>>
        ELSE IF detectedFormat = Null
        THEN cleanInput
        ELSE IF detectedFormat = PlateFormat_OLD
        THEN IF Len(cleanInput) <= 3
             THEN cleanInput
             ELSE slice(cleanInput, 0, 3) \o <<"-">> \o slice(cleanInput, 3, 7)
        ELSE cleanInput

\* validate handing the raw input back when nothing of it is left
validate_EmptyEchoesInput(in) ==
    LET cleanInput == cleanInputOf(in)
        fmt == detectFormat(cleanInput)
        formatted == applyMask(cleanInput, fmt)
    IN  IF Len(cleanInput) = 0
        THEN [isValid |-> FALSE, format |-> Null, formatted |-> in,
              errorMessage |-> "Placa é obrigatória"]
        ELSE IF Len(cleanInput) < 7
        THEN [isValid |-> FALSE, format |-> Null,
              formatted |-> applyMask(cleanInput, Null),
              errorMessage |-> "Placa incompleta"]
        ELSE IF Len(cleanInput) > 7
        THEN [isValid |-> FALSE, format |-> Null, formatted |-> in,
              errorMessage |-> "Placa muito longa"]
        ELSE IF fmt = Null
        THEN [isValid |-> FALSE, format |-> Null, formatted |-> in,
              errorMessage |-> "Formato de placa inválido"]
        ELSE IF fmt = PlateFormat_OLD /\ ~test(OLD_PLATE_REGEX, formatted)
        THEN [isValid |-> FALSE, format |-> fmt, formatted |-> formatted,
              errorMessage |-> "Formato inválido. Use: AAA-1234"]
        ELSE IF fmt = PlateFormat_NEW /\ ~test(NEW_PLATE_REGEX, cleanInput)
        THEN [isValid |-> FALSE, format |-> fmt, formatted |-> formatted,
              errorMessage |-> "Formato inválido. Use: BRA2E19"]
        ELSE [isValid |-> TRUE, format |-> fmt, formatted |-> formatted]

\* validate handing the normalized string back when it is too long
validate_TooLongCleaned(in) ==
    LET cleanInput == cleanInputOf(in)
        fmt == detectFormat(cleanInput)
        formatted == applyMask(cleanInput, fmt)
    IN  IF Len(cleanInput) = 0
        THEN [isValid |-> FALSE, format |-> Null, formatted |-> <<>>,
              errorMessage |-> "Placa é obrigatória"]
        ELSE IF Len(cleanInput) < 7
        THEN [isValid |-> FALSE, format |-> Null,
              formatted |-> applyMask(cleanInput, Null),
              errorMessage |-> "Placa incompleta"]
        ELSE IF Len(cleanInput) > 7
        THEN [isValid |-> FALSE, format |-> Null, formatted |-> cleanInput,
              errorMessage |-> "Placa muito longa"]
        ELSE IF fmt = Null
        THEN [isValid |-> FALSE, format |-> Null, formatted |-> in,
              errorMessage |-> "Formato de placa inválido"]
        ELSE IF fmt = PlateFormat_OLD /\ ~test(OLD_PLATE_REGEX, formatted)
        THEN [isValid |-> FALSE, format |-> fmt, formatted |-> formatted,
              errorMessage |-> "Formato inválido. Use: AAA-1234"]
        ELSE IF fmt = PlateFormat_NEW /\ ~test(NEW_PLATE_REGEX, cleanInput)
        THEN [isValid |-> FALSE, format |-> fmt, formatted |-> formatted,
              errorMessage |-> "Formato inválido. Use: BRA2E19"]
        ELSE [isValid |-> TRUE, format |-> fmt, formatted |-> formatted]

\* validate handing the normalized string back when no format is detected
validate_InvalidCleaned(in) ==
    LET cleanInput == cleanInputOf(in)
        fmt == detectFormat(cleanInput)
        formatted == applyMask(cleanInput, fmt)
    IN  IF Len(cleanInput) = 0
        THEN [isValid |-> FALSE, format |-> Null, formatted |-> <<>>,
              errorMessage |-> "Placa é obrigatória"]
        ELSE IF Len(cleanInput) < 7
        THEN [isValid |-> FALSE, format |-> Null,
              formatted |-> applyMask(cleanInput, Null),
              errorMessage |-> "Placa incompleta"]
        ELSE IF Len(cleanInput) > 7
        THEN [isValid |-> FALSE, format |-> Null, formatted |-> in,
              errorMessage |-> "Placa muito longa"]
        ELSE IF fmt = Null
        THEN [isValid |-> FALSE, format |-> Null, formatted |-> cleanInput,
              errorMessage |-> "Formato de placa inválido"]
        ELSE IF fmt = PlateFormat_OLD /\ ~test(OLD_PLATE_REGEX, formatted)
        THEN [isValid |-> FALSE, format |-> fmt, formatted |-> formatted,
              errorMessage |-> "Formato inválido. Use: AAA-1234"]
        ELSE IF fmt = PlateFormat_NEW /\ ~test(NEW_PLATE_REGEX, cleanInput)
        THEN [isValid |-> FALSE, format |-> fmt, formatted |-> formatted,
              errorMessage |-> "Formato inválido. Use: BRA2E19"]
        ELSE [isValid |-> TRUE, format |-> fmt, formatted |-> formatted]

\* validate measuring the raw input when it looks for a plate too long
validate_RawLength(in) ==
    LET cleanInput == cleanInputOf(in)
        fmt == detectFormat(cleanInput)
        formatted == applyMask(cleanInput, fmt)
    IN  IF Len(cleanInput) = 0
        THEN [isValid |-> FALSE, format |-> Null, formatted |-> <<>>,
              errorMessage |-> "Placa é obrigatória"]
        ELSE IF Len(cleanInput) < 7
        THEN [isValid |-> FALSE, format |-> Null,
              formatted |-> applyMask(cleanInput, Null),
              errorMessage |-> "Placa incompleta"]
        ELSE IF Len(in) > 7
        THEN [isValid |-> FALSE, format |-> Null, formatted |-> in,
              errorMessage |-> "Placa muito longa"]
        ELSE IF fmt = Null
        THEN [isValid |-> FALSE, format |-> Null, formatted |-> in,
              errorMessage |-> "Formato de placa inválido"]
        ELSE IF fmt = PlateFormat_OLD /\ ~test(OLD_PLATE_REGEX, formatted)
        THEN [isValid |-> FALSE, format |-> fmt, formatted |-> formatted,
              errorMessage |-> "Formato inválido. Use: AAA-1234"]
        ELSE IF fmt = PlateFormat_NEW /\ ~test(NEW_PLATE_REGEX, cleanInput)
        THEN [isValid |-> FALSE, format |-> fmt, formatted |-> formatted,
              errorMessage |-> "Formato inválido. Use: BRA2E19"]
        ELSE [isValid |-> TRUE, format |-> fmt, formatted |-> formatted]

\* validate reporting the format detected on an incomplete plate
validate_IncompleteKeepsFormat(in) ==
    LET cleanInput == cleanInputOf(in)
        fmt == detectFormat(cleanInput)
        formatted == applyMask(cleanInput, fmt)
    IN  IF Len(cleanInput) = 0
        THEN [isValid |-> FALSE, format |-> Null, formatted |-> <<>>,
              errorMessage |-> "Placa é obrigatória"]
        ELSE IF Len(cleanInput) < 7
        THEN [isValid |-> FALSE, format |-> fmt,
              formatted |-> applyMask(cleanInput, Null),
              errorMessage |-> "Placa incompleta"]
        ELSE IF Len(cleanInput) > 7
        THEN [isValid |-> FALSE, format |-> Null, formatted |-> in,
              errorMessage |-> "Placa muito longa"]
        ELSE IF fmt = Null
        THEN [isValid |-> FALSE, format |-> Null, formatted |-> in,
              errorMessage |-> "Formato de placa inválido"]
        ELSE IF fmt = PlateFormat_OLD /\ ~test(OLD_PLATE_REGEX, formatted)
        THEN [isValid |-> FALSE, format |-> fmt, formatted |-> formatted,
              errorMessage |-> "Formato inválido. Use: AAA-1234"]
        ELSE IF fmt = PlateFormat_NEW /\ ~test(NEW_PLATE_REGEX, cleanInput)
        THEN [isValid |-> FALSE, format |-> fmt, formatted |-> formatted,
              errorMessage |-> "Formato inválido. Use: BRA2E19"]
        ELSE [isValid |-> TRUE, format |-> fmt, formatted |-> formatted]

validate(in) ==
    LET cleanInput == cleanInputOf(in)
        fmt == detectFormat(cleanInput)
        formatted == applyMask(cleanInput, fmt)
    IN  IF Len(cleanInput) = 0
        THEN [isValid |-> FALSE, format |-> Null, formatted |-> <<>>,
              errorMessage |-> "Placa é obrigatória"]
        ELSE IF Len(cleanInput) < 7
        THEN [isValid |-> FALSE, format |-> Null,
              formatted |-> applyMask(cleanInput, Null),
              errorMessage |-> "Placa incompleta"]
        ELSE IF Len(cleanInput) > 7
        THEN [isValid |-> FALSE, format |-> Null, formatted |-> in,
              errorMessage |-> "Placa muito longa"]
        ELSE IF fmt = Null
        THEN [isValid |-> FALSE, format |-> Null, formatted |-> in,
              errorMessage |-> "Formato de placa inválido"]
        ELSE IF fmt = PlateFormat_OLD /\ ~test(OLD_PLATE_REGEX, formatted)
        THEN [isValid |-> FALSE, format |-> fmt, formatted |-> formatted,
              errorMessage |-> "Formato inválido. Use: AAA-1234"]
        ELSE IF fmt = PlateFormat_NEW /\ ~test(NEW_PLATE_REGEX, cleanInput)
        THEN [isValid |-> FALSE, format |-> fmt, formatted |-> formatted,
              errorMessage |-> "Formato inválido. Use: BRA2E19"]
        ELSE [isValid |-> TRUE, format |-> fmt, formatted |-> formatted]

\* formatPlateInput with the length guard off by one: length > 8
formatPlateInput_LateGuard(cur, newInput) ==
    LET cleanInput == cleanInputOf(newInput)
    IN  IF Len(cleanInput) > 8
        THEN cur
        ELSE applyMask(cleanInput, Null)

\* formatPlateInput with the length guard off by one: length >= 7
formatPlateInput_EarlyGuard(cur, newInput) ==
    LET cleanInput == cleanInputOf(newInput)
    IN  IF Len(cleanInput) >= 7
        THEN cur
        ELSE applyMask(cleanInput, Null)

\* formatPlateInput masking the value it falls back to
formatPlateInput_MaskedReject(cur, newInput) ==
    LET cleanInput == cleanInputOf(newInput)
    IN  IF Len(cleanInput) > 7
        THEN applyMask(cur, Null)
        ELSE applyMask(cleanInput, Null)

formatPlateInput(cur, newInput) ==
    LET cleanInput == cleanInputOf(newInput)
    IN  IF Len(cleanInput) > 7
        THEN cur
        ELSE applyMask(cleanInput, Null)

(***************************************************************************)
(* The callers.  The plate field of the form hands formatPlateInput its    *)
(* current value and the edited text.  The value is what the field held    *)
(* before the edit, typed there or loaded from a saved car: the text       *)
(* without its last character (one was typed), the text and one more       *)
(* character (one was deleted), the text itself (one was replaced by its   *)
(* like), or the empty field (the text was pasted).                        *)
(***************************************************************************)
CurrentValues(text) ==
    {<<>>, text}
      \cup (IF text = <<>> THEN {} ELSE {SubSeq(text, 1, Len(text) - 1)})
      \cup {text \o <<c>> : c \in InputChars}

Formats == {Null, PlateFormat_OLD, PlateFormat_NEW}

\* no call saved
NoCall == [op |-> "none"]

(***************************************************************************)
(* The cache (cacheService.ts), the car service that uses it and the car   *)
(* list screen.  Time is counted in units of 5 minutes.  A value that may  *)
(* be missing (null, no entry) is a sequence of at most one element.  A    *)
(* car list, or a car, is known by the revision of the server's data it    *)
(* was read from: every successful create, update or delete makes a new    *)
(* revision.  AsyncStorage itself is taken to work: its calls end, and     *)
(* none of them throws.                                                    *)
(*                                                                         *)
(* An async function runs without interruption from one await to the next: *)
(* a step is the completion of the storage or network operation a call is  *)
(* waiting for, followed by the call's code up to its next await.          *)
(***************************************************************************)
MaxNow == 3
MaxRev == 1

\* 10 minutes for the list, 15 minutes for one car, 5 minutes for the screen
CarsExpiry == 2
CarExpiry == 3
CACHE_DURATION == 1

None == <<>>
Some(x) == <<x>>

\* getCacheKey('cars') and getCacheKey('car_' + id), for the one car id
CarsKey == "cache_cars"
CarKey == "cache_car_1"
Keys == {CarsKey, CarKey}

\* the item set() builds before it awaits AsyncStorage.setItem
cacheItem(data, expiresIn) ==
    [data |-> data, timestamp |-> now, expiresIn |-> expiresIn]

\* get() measuring the age of an item with >= instead of >
isExpired_AtExpiry(item, t) == t - item.timestamp >= item.expiresIn

\* now - cacheData.timestamp > cacheData.expiresIn
isExpired(item, t) == t - item.timestamp > item.expiresIn

\* the key and the expiry of what getAllCars and getCarById cache
keyOf(o) == IF o = "getAllCars" THEN CarsKey ELSE CarKey
expiryOf(o) == IF o = "getAllCars" THEN CarsExpiry ELSE CarExpiry

\* no CacheService.get made yet
NoGet == [entry |-> None, at |-> 0, returned |-> None, ended |-> FALSE]

IdleReader ==
    [op |-> "idle", pc |-> "idle", useCache |-> FALSE, item |-> None,
     result |-> None, error |-> FALSE, fetched |-> FALSE,
     netFailed |-> FALSE, afterMutation |-> FALSE, get |-> NoGet]

IdleWriter ==
    [op |-> "idle", pc |-> "idle", todo |-> <<>>, item |-> None,
     rev |-> None, error |-> FALSE, performed |-> <<>>, quiet |-> FALSE,
     hadList |-> FALSE]

InFlight(call) == call.pc \notin {"idle", "done"}

InitService ==
    /\ now = 0
    /\ storage = [k \in Keys |-> None]
    /\ server = 0
    /\ reader = IdleReader
    /\ writer = IdleWriter
    /\ removed = [k \in Keys |-> FALSE]

InitScreen ==
    /\ screen = [cars |-> None, hasLoadedOnce |-> FALSE, lastLoadTime |-> 0,
                 shouldRefresh |-> FALSE, focused |-> FALSE]
    /\ load = [pc |-> "idle", now |-> 0]
    /\ effects = <<"focus">>
    /\ refresh = "none"

InitApp == InitService /\ InitScreen

InitPlate ==
    /\ input = <<>>
    /\ format = Null
    /\ currentValue = <<>>
    /\ op = "none"
    /\ ret = Null
    /\ lastIndex = [old |-> 0, new |-> 0]
    /\ saved = NoCall
    /\ since = 0
    /\ plate = <<>>
    /\ typed = 0
    /\ detected = Null

\* getAllCars(useCache) or getCarById(id, useCache) is called
beginRead(o, useCache) ==
    /\ reader' = [IdleReader EXCEPT
                    !.op = o,
                    !.pc = IF useCache THEN "getItem" ELSE "request",
                    !.useCache = useCache,
                    !.fetched = ~useCache,
                    !.afterMutation = /\ o = "getAllCars"
                                      /\ useCache
                                      /\ writer.pc = "done"
                                      /\ ~writer.error
                                      /\ writer.quiet]
    /\ writer' = [writer EXCEPT !.quiet = FALSE]

\* the call goes on with what CacheService.get returned: the first get
\* (if (cached) return cached; else the request) or the one of the catch
\* block (if (cached) return cached; else throw error)
afterGet(r, returned) ==
    LET g == [r.get EXCEPT !.returned = returned, !.ended = TRUE]
    IN  IF returned # None
        THEN [r EXCEPT !.pc = "done", !.result = returned, !.get = g]
        ELSE IF r.pc \in {"getItem", "removeItem"}
        THEN [r EXCEPT !.pc = "request", !.fetched = TRUE, !.get = g]
        ELSE [r EXCEPT !.pc = "done", !.error = TRUE, !.get = g]

\* CacheService.get: AsyncStorage.getItem has answered
ReaderGetItem ==
    /\ reader.pc \in {"getItem", "getItemFallback"}
    /\ LET cached == storage[keyOf(reader.op)]
           r == [reader EXCEPT !.get = [entry |-> cached, at |-> now,
                                        returned |-> None, ended |-> FALSE]]
       IN  IF cached = None
           THEN reader' = afterGet(r, None)
           ELSE IF isExpired(cached[1], now)
           THEN reader' = [r EXCEPT !.pc = IF reader.pc = "getItem"
                                           THEN "removeItem"
                                           ELSE "removeItemFallback"]
           ELSE reader' = afterGet(r, Some(cached[1].data))
    /\ UNCHANGED <<now, storage, server, writer, removed>>
    /\ UNCHANGED <<plateVars, screenVars>>

\* CacheService.get of an expired item: AsyncStorage.removeItem is done
ReaderRemoveItem ==
    /\ reader.pc \in {"removeItem", "removeItemFallback"}
    /\ storage' = [storage EXCEPT ![keyOf(reader.op)] = None]
    /\ removed' = [removed EXCEPT ![keyOf(reader.op)] = TRUE]
    /\ reader' = afterGet(reader, None)
    /\ UNCHANGED <<now, server, writer>>
    /\ UNCHANGED <<plateVars, screenVars>>

\* api.get has answered, or has failed
ReaderRequest ==
    /\ reader.pc = "request"
    /\ \/ reader' = [reader EXCEPT
                       !.pc = "setItem",
                       !.item = Some(cacheItem(server, expiryOf(reader.op)))]
       \/ reader' = [reader EXCEPT !.pc = "getItemFallback",
                                   !.netFailed = TRUE]
    /\ UNCHANGED <<now, storage, server, writer, removed>>
    /\ UNCHANGED <<plateVars, screenVars>>

\* CacheService.set: AsyncStorage.setItem is done
ReaderSetItem ==
    /\ reader.pc = "setItem"
    /\ storage' = [storage EXCEPT ![keyOf(reader.op)] = reader.item]
    /\ removed' = [removed EXCEPT ![keyOf(reader.op)] = FALSE]
    /\ reader' = [reader EXCEPT !.pc = "done",
                                !.result = Some(reader.item[1].data),
                                !.item = None]
    /\ UNCHANGED <<now, server, writer>>
    /\ UNCHANGED <<plateVars, screenVars>>

ReaderStep ==
    \/ ReaderGetItem
    \/ ReaderRemoveItem
    \/ ReaderRequest
    \/ ReaderSetItem

\* deleteCar forgetting the list
AfterRequest_DeleteKeepsList ==
    [createCar |-> <<"removeCars", "setCar">>,
     updateCar |-> <<"setCar", "removeCars">>,
     deleteCar |-> <<"removeCar">>]

\* what createCar, updateCar and deleteCar do to the cache, in this order,
\* once their request has succeeded
AfterRequest ==
    [createCar |-> <<"removeCars", "setCar">>,
     updateCar |-> <<"setCar", "removeCars">>,
     deleteCar |-> <<"removeCar", "removeCars">>]

\* createCar, updateCar or deleteCar is called
beginMutation(o) ==
    writer' = [IdleWriter EXCEPT !.op = o, !.pc = "request",
                                 !.quiet = ~InFlight(reader),
                                 !.hadList = storage[CarsKey] # None]

\* the call is left with the cache operations todo; setCar builds its item
\* when it is called
awaiting(w, todo) ==
    IF todo = <<>>
    THEN [w EXCEPT !.pc = "done", !.todo = <<>>, !.item = None]
    ELSE [w EXCEPT !.pc = "cache", !.todo = todo,
                   !.item = IF Head(todo) = "setCar"
                            THEN Some(cacheItem(w.rev[1], CarExpiry))
                            ELSE None]

\* api.post, api.put or api.delete has answered, or has failed
WriterRequest ==
    /\ writer.pc = "request"
    /\ \/ /\ server' = server + 1
          /\ writer' = awaiting([writer EXCEPT !.rev = Some(server + 1)],
                                AfterRequest[writer.op])
       \/ /\ writer' = [writer EXCEPT !.pc = "done", !.error = TRUE]
          /\ UNCHANGED server
    /\ UNCHANGED <<now, storage, reader, removed>>
    /\ UNCHANGED <<plateVars, screenVars>>

\* the cache operation the call was waiting for is done
WriterCache ==
    /\ writer.pc = "cache"
    /\ LET step == Head(writer.todo)
       IN  /\ storage' =
                 CASE step = "removeCars" -> [storage EXCEPT ![CarsKey] = None]
                   [] step = "removeCar" -> [storage EXCEPT ![CarKey] = None]
                   [] step = "setCar" -> [storage EXCEPT ![CarKey] = writer.item]
           /\ removed' = IF step = "setCar"
                         THEN [removed EXCEPT ![CarKey] = FALSE]
                         ELSE removed
           /\ writer' = awaiting([writer EXCEPT
                                    !.performed = Append(@, step)],
                                 Tail(writer.todo))
    /\ UNCHANGED <<now, server, reader>>
    /\ UNCHANGED <<plateVars, screenVars>>

WriterStep ==
    \/ WriterRequest
    \/ WriterCache

\* 5 minutes pass
Tick ==
    /\ now < MaxNow
    /\ now' = now + 1
    /\ UNCHANGED <<storage, server, reader, writer, removed>>
    /\ UNCHANGED <<plateVars, screenVars>>

(***************************************************************************)
(* The service under any caller: a getAllCars or getCarById call and a     *)
(* createCar, updateCar or deleteCar call, each started at any time the    *)
(* one before it has ended, and running together.                          *)
(***************************************************************************)
StartRead ==
    /\ ~InFlight(reader)
    /\ \E o \in {"getAllCars", "getCarById"}, useCache \in BOOLEAN :
          beginRead(o, useCache)
    /\ UNCHANGED <<now, storage, server, removed>>
    /\ UNCHANGED <<plateVars, screenVars>>

StartMutation ==
    /\ ~InFlight(writer)
    /\ server < MaxRev
    /\ \E o \in {"createCar", "updateCar", "deleteCar"} : beginMutation(o)
    /\ UNCHANGED <<now, storage, server, reader, removed>>
    /\ UNCHANGED <<plateVars, screenVars>>

NextService ==
    \/ StartRead
    \/ StartMutation
    \/ ReaderStep
    \/ WriterStep
    \/ Tick

\* no plate is being validated, the cache is empty, the screen is mounting
InitAll == InitPlate /\ InitApp

SpecService == InitAll /\ [][NextService]_vars

(***************************************************************************)
(* The car list screen (CarListScreen.tsx) with the form and the detail    *)
(* screen that send the user back to it.  The user leaves the list only    *)
(* when no loadCars call is in progress, so that one call at a time uses   *)
(* the service.  A navigation to the list makes callbacks of the screen    *)
(* due: React runs the effect on route.params of the screen when it        *)
(* commits the new route, and the navigator emits the focus event, which   *)
(* runs the callback of useFocusEffect, in its own effect after that.      *)
(***************************************************************************)
\* the focus callback running before the effect on route.params
NavigationEffects_FocusFirst == <<"focus", "params">>

\* the callbacks a navigation to the list with params makes due
NavigationEffects == <<"params", "focus">>

\* loadCars(forceRefresh): returns at once, or calls getAllCars() and waits
loadCars(forceRefresh) ==
    IF /\ ~forceRefresh
       /\ screen.hasLoadedOnce
       /\ now - screen.lastLoadTime < CACHE_DURATION
    THEN UNCHANGED <<load, reader, writer, refresh>>
    ELSE /\ load' = [pc |-> "await", now |-> now]
         /\ beginRead("getAllCars", TRUE)
         /\ refresh' = IF refresh = "requested" THEN "called" ELSE refresh

\* the user opens the detail screen, the form or the other tab
Blur ==
    /\ screen.focused
    /\ load.pc = "idle"
    /\ effects = <<>>
    /\ screen' = [screen EXCEPT !.focused = FALSE]
    /\ refresh' = IF refresh = "replaced" THEN "none" ELSE refresh
    /\ UNCHANGED <<serviceVars, load, effects>>
    /\ UNCHANGED plateVars

\* onSubmit of the form, or confirmDelete of the detail screen: the call
\* of the service
Save ==
    /\ ~screen.focused
    /\ effects = <<>>
    /\ writer.pc = "idle"
    /\ server < MaxRev
    /\ \E o \in {"createCar", "updateCar", "deleteCar"} : beginMutation(o)
    /\ UNCHANGED <<now, storage, server, reader, removed, screenVars>>
    /\ UNCHANGED plateVars

\* the call has ended: navigate to the list with shouldRefresh: true, or
\* alert the error and stay
SaveReturns ==
    /\ writer.pc = "done"
    /\ writer' = IdleWriter
    /\ IF writer.error
       THEN UNCHANGED <<screen, effects, refresh>>
       ELSE /\ screen' = [screen EXCEPT !.shouldRefresh = TRUE]
            /\ effects' = NavigationEffects
            /\ refresh' = "requested"
    /\ UNCHANGED <<now, storage, server, reader, removed, load>>
    /\ UNCHANGED plateVars

\* the user goes back to the list without saving
GoBack ==
    /\ ~screen.focused
    /\ effects = <<>>
    /\ writer.pc = "idle"
    /\ effects' = <<"focus">>
    /\ UNCHANGED <<serviceVars, screen, load, refresh>>
    /\ UNCHANGED plateVars

\* useEffect on route.params: forget the last load, clear the param
ParamsEffect ==
    /\ effects # <<>>
    /\ Head(effects) = "params"
    /\ effects' = Tail(effects)
    /\ screen' = IF screen.shouldRefresh
                 THEN [screen EXCEPT !.hasLoadedOnce = FALSE,
                                     !.shouldRefresh = FALSE]
                 ELSE screen
    /\ UNCHANGED <<serviceVars, load, refresh>>
    /\ UNCHANGED plateVars

\* useFocusEffect: the screen has the focus, loadCars()
FocusEffect ==
    /\ effects # <<>>
    /\ Head(effects) = "focus"
    /\ load.pc = "idle"
    /\ effects' = Tail(effects)
    /\ screen' = [screen EXCEPT !.focused = TRUE]
    /\ loadCars(FALSE)
    /\ UNCHANGED <<now, storage, server, removed>>
    /\ UNCHANGED plateVars

\* onRefresh: loadCars(true)
PullToRefresh ==
    /\ screen.focused
    /\ load.pc = "idle"
    /\ effects = <<>>
    /\ loadCars(TRUE)
    /\ UNCHANGED <<now, storage, server, removed, screen, effects>>
    /\ UNCHANGED plateVars

\* loadCars after its await: show the cars, or alert the error
LoadReturns ==
    /\ load.pc = "await"
    /\ reader.pc = "done"
    /\ reader' = IdleReader
    /\ load' = [load EXCEPT !.pc = "idle"]
    /\ IF reader.error
       THEN /\ refresh' = IF refresh = "called" THEN "failed" ELSE refresh
            /\ UNCHANGED screen
       ELSE /\ refresh' = IF refresh \in {"called", "failed"}
                          THEN "replaced"
                          ELSE refresh
            /\ screen' = [screen EXCEPT !.cars = reader.result,
                                        !.hasLoadedOnce = TRUE,
                                        !.lastLoadTime = load.now]
    /\ UNCHANGED <<now, storage, server, writer, removed, effects>>
    /\ UNCHANGED plateVars

NextScreen ==
    \/ Blur
    \/ Save
    \/ SaveReturns
    \/ GoBack
    \/ ParamsEffect
    \/ FocusEffect
    \/ PullToRefresh
    \/ LoadReturns
    \/ ReaderStep
    \/ WriterStep
    \/ Tick

SpecScreen == InitAll /\ [][NextScreen]_vars

\* React runs the effects that are due; the requests of the service end
\* (axios times out after 10 s) and so do the calls of AsyncStorage, and
\* the code that awaits them goes on.  Nothing makes the user act, or the
\* clock reach a given time.
SpecScreenFair ==
    /\ SpecScreen
    /\ WF_vars(ParamsEffect)
    /\ WF_vars(FocusEffect)
    /\ WF_vars(ReaderStep)
    /\ WF_vars(WriterStep)
    /\ WF_vars(LoadReturns)
    /\ WF_vars(SaveReturns)


Init ==
    /\ input \in InputStrings
    /\ format = Null
    /\ currentValue = <<>>
    /\ op = "none"
    /\ ret = Null
    /\ lastIndex = [old |-> 0, new |-> 0]
    /\ saved = NoCall
    /\ since = 0
    /\ plate = <<>>
    /\ typed = 0
    /\ detected = Null
    /\ InitApp

DetectFormat ==
    /\ op = "none"
    /\ op' = "detectFormat"
    /\ ret' = detectFormat(input)
    /\ format' = Null
    /\ currentValue' = <<>>
    /\ UNCHANGED <<input, callVars, fieldVars, appVars>>

ApplyMask ==
    \E fmt \in Formats :
        /\ op = "none"
        /\ op' = "applyMask"
        /\ format' = fmt
        /\ ret' = applyMask(input, fmt)
        /\ currentValue' = <<>>
        /\ UNCHANGED <<input, callVars, fieldVars, appVars>>

Validate ==
    /\ op = "none"
    /\ op' = "validate"
    /\ ret' = validate(input)
    /\ format' = Null
    /\ currentValue' = <<>>
    /\ UNCHANGED <<input, callVars, fieldVars, appVars>>

FormatPlateInput ==
    \E cur \in CurrentValues(input) :
        /\ op = "none"
        /\ op' = "formatPlateInput"
        /\ currentValue' = cur
        /\ ret' = formatPlateInput(cur, input)
        /\ format' = Null
        /\ UNCHANGED <<input, callVars, fieldVars, appVars>>

Next ==
    \/ DetectFormat
    \/ ApplyMask
    \/ Validate
    \/ FormatPlateInput

Spec == Init /\ [][Next]_vars

(***************************************************************************)
(* Sequences of calls.  The only objects of the class that outlive a call  *)
(* are its two static RegExp objects, and the only thing a RegExp object   *)
(* keeps between two uses is its lastIndex, which test() reads and writes  *)
(* when the expression has the g or the y flag.  The methods are           *)
(* synchronous, so the calls of any number of callers happen one after     *)
(* the other, in any order.  Each method is followed here through its uses *)
(* of the static objects; the regex literals of a method body are created  *)
(* anew by every call.                                                     *)
(***************************************************************************)
\* the static expressions with the g flag
StaticRegexFlags_Global == {"g"}

\* the flags of OLD_PLATE_REGEX and NEW_PLATE_REGEX: none
StaticRegexFlags == {}

\* RegExp.prototype.test on an object whose lastIndex is li, for a pattern
\* anchored with ^ and $: a match starts at 0 and ends at the end
testFrom(re, s, li) ==
    IF "g" \notin StaticRegexFlags /\ "y" \notin StaticRegexFlags
    THEN [ok |-> test(re, s), lastIndex |-> li]
    ELSE IF li = 0 /\ test(re, s)
    THEN [ok |-> TRUE, lastIndex |-> Len(s)]
    ELSE [ok |-> FALSE, lastIndex |-> 0]

detectFormatCall(in, li) ==
    LET cleanInput == cleanInputOf(in)
        old == testFrom(OLD_PLATE_REGEX,
                        slice(cleanInput, 0, 3) \o <<"-">> \o slice(cleanInput, 3, 7),
                        li.old)
        new == testFrom(NEW_PLATE_REGEX, cleanInput, li.new)
    IN  IF Len(cleanInput) # 7
        THEN [val |-> detectFormat(in), li |-> li]
        ELSE IF old.ok
        THEN [val |-> PlateFormat_OLD, li |-> [li EXCEPT !.old = old.lastIndex]]
        ELSE IF new.ok
        THEN [val |-> PlateFormat_NEW,
              li |-> [old |-> old.lastIndex, new |-> new.lastIndex]]
        ELSE [val |-> Null, li |-> [old |-> old.lastIndex, new |-> new.lastIndex]]

applyMaskCall(in, fmt, li) ==
    LET cleanInput == cleanInputOf(in)
        detectedFormat == IF fmt # Null THEN [val |-> fmt, li |-> li]
                          ELSE detectFormatCall(cleanInput, li)
    IN  IF Len(cleanInput) = 0
        THEN [val |-> <<>>, li |-> li]
        ELSE IF detectedFormat.val = PlateFormat_OLD /\ Len(cleanInput) > 3
        THEN [val |-> slice(cleanInput, 0, 3) \o <<"-">> \o slice(cleanInput, 3, 7),
              li |-> detectedFormat.li]
        ELSE [val |-> cleanInput, li |-> detectedFormat.li]

validateCall(in, li) ==
    LET cleanInput == cleanInputOf(in)
        partial == applyMaskCall(cleanInput, Null, li)
        fmt == detectFormatCall(cleanInput, li)
        formatted == applyMaskCall(cleanInput, fmt.val, fmt.li)
        last == IF fmt.val = PlateFormat_OLD
                THEN testFrom(OLD_PLATE_REGEX, formatted.val, formatted.li.old)
                ELSE testFrom(NEW_PLATE_REGEX, cleanInput, formatted.li.new)
        liLast == IF fmt.val = PlateFormat_OLD
                  THEN [formatted.li EXCEPT !.old = last.lastIndex]
                  ELSE [formatted.li EXCEPT !.new = last.lastIndex]
    IN  IF Len(cleanInput) = 0
        THEN [val |-> [isValid |-> FALSE, format |-> Null, formatted |-> <<>>,
                       errorMessage |-> "Placa é obrigatória"],
              li |-> li]
        ELSE IF Len(cleanInput) < 7
        THEN [val |-> [isValid |-> FALSE, format |-> Null,
                       formatted |-> partial.val,
                       errorMessage |-> "Placa incompleta"],
              li |-> partial.li]
        ELSE IF Len(cleanInput) > 7
        THEN [val |-> [isValid |-> FALSE, format |-> Null, formatted |-> in,
                       errorMessage |-> "Placa muito longa"],
              li |-> li]
        ELSE IF fmt.val = Null
        THEN [val |-> [isValid |-> FALSE, format |-> Null, formatted |-> in,
                       errorMessage |-> "Formato de placa inválido"],
              li |-> fmt.li]
        ELSE IF ~last.ok
        THEN [val |-> [isValid |-> FALSE, format |-> fmt.val,
                       formatted |-> formatted.val,
                       errorMessage |-> IF fmt.val = PlateFormat_OLD
                                        THEN "Formato inválido. Use: AAA-1234"
                                        ELSE "Formato inválido. Use: BRA2E19"],
              li |-> liLast]
        ELSE [val |-> [isValid |-> TRUE, format |-> fmt.val,
                       formatted |-> formatted.val],
              li |-> liLast]

formatPlateInputCall(cur, newInput, li) ==
    LET cleanInput == cleanInputOf(newInput)
    IN  IF Len(cleanInput) > 7
        THEN [val |-> cur, li |-> li]
        ELSE applyMaskCall(cleanInput, Null, li)

\* how many calls after the saved one are counted
MaxSince == 2

\* the strings the callers pass: a partial plate, a whole plate of each
\* format, one of them hyphenated, 7 characters no plate is made of, and a
\* string that is too long
CallInputs ==
    { <<"b", "b", "b", "1", "1">>,
      <<"b", "b", "b", "-", "1", "1", "1", "1">>,
      <<"b", "b", "b", "1", "b", "1", "1">>,
      <<"1", "b", "b", "1", "1", "1", "1">>,
      <<"b", "b", "b", "1", "1", "1", "1", "1">> }

\* the call made last, with its arguments and its result
lastCall ==
    [op |-> op, input |-> input, format |-> format,
     currentValue |-> currentValue, ret |-> ret]

\* a call was made: one more since the saved one
Counted == since' = IF saved = NoCall THEN 0 ELSE Min(since + 1, MaxSince)

InitCalls ==
    /\ input = <<>>
    /\ format = Null
    /\ currentValue = <<>>
    /\ op = "none"
    /\ ret = Null
    /\ lastIndex = [old |-> 0, new |-> 0]
    /\ saved = NoCall
    /\ since = 0
    /\ plate = <<>>
    /\ typed = 0
    /\ detected = Null
    /\ InitApp

CallDetectFormat ==
    \E in \in CallInputs :
        LET r == detectFormatCall(in, lastIndex)
        IN  /\ op' = "detectFormat"
            /\ input' = in
            /\ format' = Null
            /\ currentValue' = <<>>
            /\ ret' = r.val
            /\ lastIndex' = r.li
            /\ Counted
            /\ UNCHANGED <<saved, fieldVars, appVars>>

CallApplyMask ==
    \E in \in CallInputs, fmt \in Formats :
        LET r == applyMaskCall(in, fmt, lastIndex)
        IN  /\ op' = "applyMask"
            /\ input' = in
            /\ format' = fmt
            /\ currentValue' = <<>>
            /\ ret' = r.val
            /\ lastIndex' = r.li
            /\ Counted
            /\ UNCHANGED <<saved, fieldVars, appVars>>

CallValidate ==
    \E in \in CallInputs :
        LET r == validateCall(in, lastIndex)
        IN  /\ op' = "validate"
            /\ input' = in
            /\ format' = Null
            /\ currentValue' = <<>>
            /\ ret' = r.val
            /\ lastIndex' = r.li
            /\ Counted
            /\ UNCHANGED <<saved, fieldVars, appVars>>

CallFormatPlateInput ==
    \E in \in CallInputs :
        \E cur \in CurrentValues(in) :
            LET r == formatPlateInputCall(cur, in, lastIndex)
            IN  /\ op' = "formatPlateInput"
                /\ input' = in
                /\ format' = Null
                /\ currentValue' = cur
                /\ ret' = r.val
                /\ lastIndex' = r.li
                /\ Counted
                /\ UNCHANGED <<saved, fieldVars, appVars>>

\* the call made last is kept, to compare later calls with
Remember ==
    /\ op # "none"
    /\ saved' = lastCall
    /\ since' = 0
    /\ UNCHANGED <<input, format, currentValue, op, ret, lastIndex, fieldVars, appVars>>

NextCalls ==
    \/ CallDetectFormat
    \/ CallApplyMask
    \/ CallValidate
    \/ CallFormatPlateInput
    \/ Remember

SpecCalls == InitCalls /\ [][NextCalls]_vars

(***************************************************************************)
(* The plate field of the form (CarFormScreen): the field shows the value  *)
(* of the form, and every keystroke hands formatPlateInput that value and  *)
(* the edited text, and stores what it returns as the new value.  Here a   *)
(* user types a valid plate into the empty field, one character at a time. *)
(***************************************************************************)
\* the characters the user types: letters in either case, and digits
PlateChars == {"b", "C", "1", "2"}

\* the plates validate accepts, as typed
Plates == {p \in [1..7 -> PlateChars] : validate(p).isValid}

InitTyping ==
    /\ plate \in Plates
    /\ typed = 0
    /\ input = <<>>
    /\ format = Null
    /\ currentValue = <<>>
    /\ op = "none"
    /\ ret = <<>>
    /\ detected = Null
    /\ lastIndex = [old |-> 0, new |-> 0]
    /\ saved = NoCall
    /\ since = 0
    /\ InitApp

\* onChangeText(text): text is the value shown and the character typed
TypeChar ==
    /\ typed < Len(plate)
    /\ LET text == ret \o <<plate[typed + 1]>>
       IN  /\ typed' = typed + 1
           /\ input' = text
           /\ currentValue' = ret
           /\ op' = "formatPlateInput"
           /\ ret' = formatPlateInput(ret, text)
           /\ detected' = IF Len(cleanInputOf(text)) > 7
                          THEN detected
                          ELSE detectFormat(cleanInputOf(text))
    /\ UNCHANGED <<format, plate, callVars, appVars>>

NextTyping == TypeChar

SpecTyping == InitTyping /\ [][NextTyping]_vars

(***************************************************************************)
(* The same field under any editing: the text handed to formatPlateInput   *)
(* is the value shown with a character put in or taken out anywhere, and   *)
(* what formatPlateInput returns is shown next.  (The field's maxLength    *)
(* is left out: the text is as long as the edit makes it.)                 *)
(***************************************************************************)
\* s with the character c put in after its first i characters
insertAt(s, i, c) == SubSeq(s, 1, i) \o <<c>> \o SubSeq(s, i + 1, Len(s))

\* s without its i-th character
deleteAt(s, i) == SubSeq(s, 1, i - 1) \o SubSeq(s, i + 1, Len(s))

InitField ==
    /\ ret = <<>>
    /\ input = <<>>
    /\ format = Null
    /\ currentValue = <<>>
    /\ op = "none"
    /\ plate = <<>>
    /\ typed = 0
    /\ detected = Null
    /\ lastIndex = [old |-> 0, new |-> 0]
    /\ saved = NoCall
    /\ since = 0
    /\ InitApp

\* onChangeText(text) with value = ret
ChangeText(text) ==
    /\ input' = text
    /\ currentValue' = ret
    /\ op' = "formatPlateInput"
    /\ ret' = formatPlateInput(ret, text)
    /\ UNCHANGED <<format, fieldVars, callVars, appVars>>

InsertChar == \E i \in 0..Len(ret), c \in InputChars : ChangeText(insertAt(ret, i, c))

DeleteChar == \E i \in 1..Len(ret) : ChangeText(deleteAt(ret, i))

NextField ==
    \/ InsertChar
    \/ DeleteChar

SpecField == InitField /\ [][NextField]_vars

(***************************************************************************)
(* The grammars as the specification words them: a shape is a sequence of  *)
(* position kinds, "L" a letter A-Z, "D" a digit 0-9, "-" the hyphen, and  *)
(* a string has the shape when it has its length and every character is of *)
(* the kind at its position.                                               *)
(***************************************************************************)
KindOf(k) == IF k = "L" THEN UpperAZ ELSE IF k = "D" THEN Digit ELSE {k}

HasShape(s, shape) ==
    /\ Len(s) = Len(shape)
    /\ \A i \in 1..Len(shape) : s[i] \in KindOf(shape[i])

LLLDDDD == <<"L", "L", "L", "D", "D", "D", "D">>
LLLDLDD == <<"L", "L", "L", "D", "L", "D", "D">>
LLL_DDDD == <<"L", "L", "L", "-", "D", "D", "D", "D">>

\* the normalized form of the string the method was called with
clean == cleanInputOf(input)

\* C1: validate(s).isValid is true exactly when the normalized form of s has
\* length 7 and is 3 letters and 4 digits, or 3 letters, a digit, a letter
\* and 2 digits; every other input yields isValid = FALSE.
C1_ValidIffGrammar ==
    op = "validate" =>
        (ret.isValid <=> (HasShape(clean, LLLDDDD) \/ HasShape(clean, LLLDLDD)))

\* C1 happens: a raw input with lower-case letters and a separator is valid
C1_Witness ==
    /\ op = "validate"
    /\ input # clean
    /\ ret.isValid

\* C2: no normalized string of length 7 matches both grammars, so at length
\* 7 the result of detectFormat is the same when NEW is tested before OLD.
C2_GrammarsExclusive ==
    (op = "detectFormat" /\ Len(clean) = 7) =>
        LET hyphenated == slice(clean, 0, 3) \o <<"-">> \o slice(clean, 3, 7)
            old == test(OLD_PLATE_REGEX, hyphenated)
            new == test(NEW_PLATE_REGEX, clean)
            newFirst == IF new THEN PlateFormat_NEW
                        ELSE IF old THEN PlateFormat_OLD ELSE Null
        IN  /\ ~(old /\ new)
            /\ ret = newFirst

\* C2 happens: detectFormat classified a 7-character string
C2_Witness ==
    /\ op = "detectFormat"
    /\ Len(clean) = 7
    /\ ret # Null

\* C3: when the normalized form has length 7 and detectFormat returns OLD or
\* NEW, validate returns isValid = TRUE with that format and with formatted
\* equal to applyMask of the normalized form under that format.
C3_DetectedImpliesValid ==
    (op = "validate" /\ Len(clean) = 7 /\ detectFormat(input) # Null) =>
        /\ ret.isValid
        /\ ret.format = detectFormat(input)
        /\ ret.formatted = applyMask(clean, detectFormat(input))
        /\ "errorMessage" \notin DOMAIN ret

\* C3 happens: an OLD plate typed in lower case was validated
C3_Witness ==
    /\ op = "validate"
    /\ Len(clean) = 7
    /\ detectFormat(input) = PlateFormat_OLD
    /\ input # clean
    /\ ret.formatted # clean

\* C4 as stated: for all previous display values and all new raw inputs,
\* formatPlateInput returns a string whose normalized form has at most 7
\* characters.
C4_Original ==
    op = "formatPlateInput" => Len(cleanInputOf(ret)) <= 7

\* C4 as amended: when the normalized form of the previous display value has
\* at most 7 characters, formatPlateInput returns a string whose normalized
\* form has at most 7 characters.
C4_BoundedWhenPreviousBounded ==
    (op = "formatPlateInput" /\ Len(cleanInputOf(currentValue)) <= 7) =>
        Len(cleanInputOf(ret)) <= 7

\* C4 happens: an over-long edit of a 7-character value was formatted
C4_Witness ==
    /\ op = "formatPlateInput"
    /\ Len(clean) > 7
    /\ Len(cleanInputOf(currentValue)) = 7
    /\ Len(cleanInputOf(ret)) = 7

\* C5: when the normalized form of the new raw input has more than 7
\* characters, formatPlateInput returns the previous display value exactly
\* as passed in.
C5_RejectReturnsPrevious ==
    (op = "formatPlateInput" /\ Len(clean) > 7) => ret = currentValue

\* C5 happens: the value handed back is one that masking would have changed
C5_Witness ==
    /\ op = "formatPlateInput"
    /\ Len(clean) > 7
    /\ currentValue # <<>>
    /\ currentValue # applyMask(currentValue, Null)
    /\ ret = currentValue

\* C6: when the normalized form of the new raw input has at most 7
\* characters, formatPlateInput returns applyMask of it with the format
\* auto-detected, whatever the previous display value, and drops none of
\* its characters, also when they cannot lead to a valid plate.
C6_AcceptReturnsMask ==
    (op = "formatPlateInput" /\ Len(clean) <= 7) =>
        /\ ret = applyMask(clean, Null)
        /\ \A cur \in CurrentValues(input) : formatPlateInput(cur, input) = ret
        /\ cleanInputOf(ret) = clean

\* C6 happens: an input starting with a digit, which no plate does, was
\* accepted over a different previous value
C6_Witness ==
    /\ op = "formatPlateInput"
    /\ Len(clean) \in 1..7
    /\ clean[1] \in Digit
    /\ currentValue # ret
    /\ ret = clean

\* C7: for every normalized string of length 7, detectFormat returns OLD if
\* it is 3 letters followed by 4 digits, NEW if it is 3 letters, a digit, a
\* letter and 2 digits, and null in every other case.
C7_DetectAtSeven ==
    (op = "detectFormat" /\ Len(clean) = 7) =>
        ret = IF HasShape(clean, LLLDDDD) THEN PlateFormat_OLD
              ELSE IF HasShape(clean, LLLDLDD) THEN PlateFormat_NEW
              ELSE Null

\* C7 happens: detectFormat returned OLD for a raw input of 7 alphanumerics
C7_Witness ==
    /\ op = "detectFormat"
    /\ Len(clean) = 7
    /\ input # clean
    /\ ret = PlateFormat_OLD

\* C8: for normalized strings of length 5 and 6, detectFormat returns NEW
\* exactly for LLLDL and LLLDLD, OLD exactly for LLLDD and LLLDDD, and null
\* for every other string of those lengths.
C8_DetectAtFiveAndSix ==
    (op = "detectFormat" /\ Len(clean) \in {5, 6}) =>
        ret = IF \/ HasShape(clean, <<"L", "L", "L", "D", "L">>)
                 \/ HasShape(clean, <<"L", "L", "L", "D", "L", "D">>)
              THEN PlateFormat_NEW
              ELSE IF \/ HasShape(clean, <<"L", "L", "L", "D", "D">>)
                      \/ HasShape(clean, <<"L", "L", "L", "D", "D", "D">>)
              THEN PlateFormat_OLD
              ELSE Null

\* C8 happens: detectFormat committed to OLD on a 5-character prefix
C8_Witness ==
    /\ op = "detectFormat"
    /\ Len(clean) = 5
    /\ ret = PlateFormat_OLD

\* C9: detectFormat returns null for every input whose normalized length is
\* 0 to 4, the prefix LLLD included, and for every input whose normalized
\* length is greater than 7.
C9_DetectNullOutsideFiveToSeven ==
    (op = "detectFormat" /\ (Len(clean) <= 4 \/ Len(clean) > 7)) => ret = Null

\* C9 happens: detectFormat was called on the ambiguous prefix LLLD
C9_Witness ==
    /\ op = "detectFormat"
    /\ HasShape(clean, <<"L", "L", "L", "D">>)
    /\ ret = Null

\* the format applyMask works with: the one supplied, else the one detected
formatInEffect == IF format # Null THEN format ELSE detectFormat(input)

\* C10: when the format in effect is OLD (supplied, whatever the string, or
\* auto-detected), applyMask returns the normalized string unchanged if it
\* has at most 3 characters, and otherwise its first 3 characters, one
\* hyphen and characters 4 to 7 only, so that this output has exactly one
\* hyphen; the output has at most 8 characters, and is LLL-DDDD for every
\* valid OLD plate.
C10_OldMask ==
    (op = "applyMask" /\ formatInEffect = PlateFormat_OLD) =>
        /\ Len(clean) <= 3 => ret = clean
        /\ Len(clean) > 3 =>
             /\ ret = [i \in 1..(Min(Len(clean), 7) + 1) |->
                          IF i <= 3 THEN clean[i]
                          ELSE IF i = 4 THEN "-" ELSE clean[i - 1]]
             /\ Cardinality({i \in DOMAIN ret : ret[i] = "-"}) = 1
        /\ Len(ret) <= 8
        /\ HasShape(clean, LLLDDDD) => HasShape(ret, LLL_DDDD)

\* C10 happens: OLD was supplied for a string longer than 7 characters that
\* is no OLD plate, and the mask kept characters 4 to 7 only
C10_Witness ==
    /\ op = "applyMask"
    /\ format = PlateFormat_OLD
    /\ Len(clean) > 7
    /\ clean[1] \in Digit
    /\ Len(ret) = 8

\* C11: when the format in effect is NEW (supplied or auto-detected),
\* applyMask returns the normalized input unchanged, at any length: no
\* separator is inserted, so a valid NEW plate comes back as normalized.
C11_NewMask ==
    (op = "applyMask" /\ formatInEffect = PlateFormat_NEW) =>
        /\ ret = clean
        /\ \A i \in DOMAIN ret : ret[i] # "-"

\* C11 happens: NEW was supplied for a string of more than 3 characters that
\* OLD would have hyphenated
C11_Witness ==
    /\ op = "applyMask"
    /\ format = PlateFormat_NEW
    /\ HasShape(clean, LLLDDDD)
    /\ input # clean
    /\ ret = clean

\* C12: for every input whose normalized form is empty, the empty string
\* and inputs made only of separators alike, validate returns isValid =
\* FALSE, format = null, formatted = the empty string and the error
\* 'Placa é obrigatória'.
C12_EmptyIsRequired ==
    (op = "validate" /\ clean = <<>>) =>
        ret = [isValid |-> FALSE, format |-> Null, formatted |-> <<>>,
               errorMessage |-> "Placa é obrigatória"]

\* C12 happens: validate was called on separators only
C12_Witness ==
    /\ op = "validate"
    /\ input # <<>>
    /\ clean = <<>>
    /\ ret.formatted = <<>>

\* C13: for every input whose normalized length is 1 to 6, validate returns
\* isValid = FALSE with the error 'Placa incompleta' and formatted =
\* applyMask of the normalized partial string with the format auto-detected:
\* LLL-DD or LLL-DDD when the partial is LLLDD or LLLDDD, unmasked otherwise.
C13_IncompleteIsMasked ==
    (op = "validate" /\ Len(clean) \in 1..6) =>
        /\ ~ret.isValid
        /\ ret.errorMessage = "Placa incompleta"
        /\ ret.formatted = applyMask(clean, Null)
        /\ ret.formatted =
             IF \/ HasShape(clean, <<"L", "L", "L", "D", "D">>)
                \/ HasShape(clean, <<"L", "L", "L", "D", "D", "D">>)
             THEN SubSeq(clean, 1, 3) \o <<"-">> \o SubSeq(clean, 4, Len(clean))
             ELSE clean

\* C13 happens: validate was called on a partial OLD plate of 6 characters
C13_Witness ==
    /\ op = "validate"
    /\ Len(clean) = 6
    /\ Len(ret.formatted) = 7
    /\ ret.formatted[4] = "-"

\* C14: for every input whose normalized length is greater than 7, validate
\* returns isValid = FALSE with the error 'Placa muito longa' and formatted
\* equal to the raw input, character for character.
C14_TooLongEchoesInput ==
    (op = "validate" /\ Len(clean) > 7) =>
        /\ ~ret.isValid
        /\ ret.errorMessage = "Placa muito longa"
        /\ ret.formatted = input

\* C14 happens: the raw input handed back differs from its normalized form
C14_Witness ==
    /\ op = "validate"
    /\ Len(clean) > 7
    /\ input # clean
    /\ ret.formatted = input

\* C15: for every input whose normalized length is 7 and which detectFormat
\* classifies as null, validate returns isValid = FALSE, format = null, the
\* error 'Formato de placa inválido' and formatted equal to the raw input.
C15_UnrecognizedEchoesInput ==
    (op = "validate" /\ Len(clean) = 7 /\ detectFormat(input) = Null) =>
        ret = [isValid |-> FALSE, format |-> Null, formatted |-> input,
               errorMessage |-> "Formato de placa inválido"]

\* C15 happens: 7 alphanumerics of neither grammar, typed with a separator
C15_Witness ==
    /\ op = "validate"
    /\ Len(clean) = 7
    /\ ~HasShape(clean, LLLDDDD)
    /\ ~HasShape(clean, LLLDLDD)
    /\ input # clean
    /\ ret.formatted = input

\* the two errors of the grammar-mismatch branch of validate
GrammarMismatchErrors ==
    {"Formato inválido. Use: AAA-1234", "Formato inválido. Use: BRA2E19"}

\* C16: the grammar-mismatch branch of validate is unreachable: validate
\* returns neither 'Formato inválido. Use: AAA-1234' nor 'Formato inválido.
\* Use: BRA2E19' for any input, the final regex check agreeing with the
\* classification at length 7.
C16_MismatchUnreachable ==
    op = "validate" =>
        /\ "errorMessage" \in DOMAIN ret => ret.errorMessage \notin GrammarMismatchErrors
        /\ ret.format = PlateFormat_OLD => test(OLD_PLATE_REGEX, ret.formatted)
        /\ ret.format = PlateFormat_NEW => test(NEW_PLATE_REGEX, clean)

\* C16 happens: validate went through the final check with a NEW plate
C16_Witness ==
    /\ op = "validate"
    /\ ret.format = PlateFormat_NEW
    /\ "errorMessage" \notin DOMAIN ret

\* C17: the normalization yields a string of characters of [A-Z0-9] only,
\* and normalizing its result again returns the same string.
C17_NormalizeIdempotent ==
    /\ \A i \in DOMAIN clean : clean[i] \in UpperAZ \cup Digit
    /\ cleanInputOf(clean) = clean

\* C17 happens: a method normalized an input with lower-case letters and
\* separators in it
C17_Witness ==
    /\ op # "none"
    /\ Len(clean) > 0
    /\ Len(clean) < Len(input)
    /\ \E i \in DOMAIN input : input[i] \in LowerAZ

\* C18: the four methods keep no state between calls: in any sequence of
\* calls, a call with the arguments of an earlier call returns what the
\* earlier call returned, whatever calls were made in between, and the
\* static RegExp objects are left as they were.
C18_NoStateBetweenCalls ==
    /\ lastIndex = [old |-> 0, new |-> 0]
    /\ (since > 0 /\ saved.op = op /\ saved.input = input
          /\ saved.format = format /\ saved.currentValue = currentValue)
         => ret = saved.ret

\* each call returns what the method returns as a function of its arguments
CallsAreFunctions ==
    /\ op = "detectFormat" => ret = detectFormat(input)
    /\ op = "applyMask" => ret = applyMask(input, format)
    /\ op = "validate" => ret = validate(input)
    /\ op = "formatPlateInput" => ret = formatPlateInput(currentValue, input)

\* C18 happens: validate accepted a plate, another call was made, and
\* validate was called again on the same plate
C18_Witness ==
    /\ since = 2
    /\ saved.op = "validate"
    /\ saved.ret.isValid
    /\ op = "validate"
    /\ input = saved.input

\* the normalized form of what was typed of the plate so far
typedPrefix == cleanInputOf(SubSeq(plate, 1, typed))

\* the format of the plate being typed
plateFormat ==
    IF HasShape(cleanInputOf(plate), LLLDDDD) THEN PlateFormat_OLD ELSE PlateFormat_NEW

\* C19: for every valid plate of format F, detectFormat returns null on its
\* prefixes of length 1 to 4 and F on its prefixes of length 5 and 6 and on
\* the plate: from the 5th character on the classification made while the
\* plate is typed is F and changes no more.
C19_CommitsAtFifth ==
    (typed >= 1) =>
        /\ detectFormat(SubSeq(plate, 1, typed)) =
             IF typed <= 4 THEN Null ELSE plateFormat
        /\ detected = IF typed <= 4 THEN Null ELSE plateFormat

\* C19 happens: a NEW plate typed partly in lower case was typed to its end
C19_Witness ==
    /\ typed = 7
    /\ plate # cleanInputOf(plate)
    /\ detected = PlateFormat_NEW

\* C20: when a valid plate is typed one character at a time, every
\* keystroke is accepted and the display after k characters is applyMask of
\* the first k: for an OLD plate unmasked up to the 4th character and with
\* the hyphen after the 3rd from the 5th on, for a NEW plate without hyphen.
C20_TypingShowsMask ==
    /\ typed = 0 => ret = <<>>
    /\ typed >= 1 =>
        /\ ret # currentValue
        /\ ret = applyMask(SubSeq(plate, 1, typed), Null)
        /\ ret = IF plateFormat = PlateFormat_OLD /\ typed >= 5
                 THEN SubSeq(typedPrefix, 1, 3) \o <<"-">>
                        \o SubSeq(typedPrefix, 4, typed)
                 ELSE typedPrefix

\* C20 happens: the 5th character of an OLD plate was typed, and the hyphen
\* showed up
C20_Witness ==
    /\ typed = 5
    /\ Len(currentValue) = 4
    /\ Len(ret) = 6
    /\ ret[4] = "-"

\* C21: in the keystroke loop that starts from the empty display and feeds
\* every returned value back as the previous one, the display has at most 7
\* normalized characters and at most 8 characters, and formatPlateInput
\* leaves it as it is when it is handed the display as both arguments.
C21_DisplayStaysInBounds ==
    /\ Len(cleanInputOf(ret)) <= 7
    /\ Len(ret) <= 8
    /\ formatPlateInput(ret, ret) = ret

\* C21 happens: a character put into a whole hyphenated plate was rejected
C21_Witness ==
    /\ op = "formatPlateInput"
    /\ Len(cleanInputOf(input)) = 8
    /\ Len(ret) = 8
    /\ ret = currentValue

\* C22: applyMask with the format auto-detected is idempotent, on partial
\* inputs, on inputs longer than 7 characters and on masked inputs alike.
C22_MaskIdempotent ==
    (op = "applyMask" /\ format = Null) => applyMask(ret, Null) = ret

\* C22 happens: applyMask hyphenated its input, so that masking the result
\* again is masking a masked string
C22_Witness ==
    /\ op = "applyMask"
    /\ format = Null
    /\ Len(ret) = Len(clean) + 1

\* C23: for every input validate accepts, validating the formatted string
\* it returned gives the same isValid, format and formatted.
C23_ValidateRoundTrip ==
    (op = "validate" /\ ret.isValid) =>
        LET again == validate(ret.formatted)
        IN  /\ again.isValid
            /\ again.format = ret.format
            /\ again.formatted = ret.formatted

\* C23 happens: validate accepted an OLD plate and returned it hyphenated
C23_Witness ==
    /\ op = "validate"
    /\ ret.isValid
    /\ HasShape(ret.formatted, LLL_DDDD)

\* C24: the result of validate has a format other than null exactly when
\* isValid is true and an errorMessage exactly when isValid is false; an
\* incomplete input has format null also when detectFormat classifies it.
C24_FormatIffValid ==
    op = "validate" =>
        /\ ret.format # Null <=> ret.isValid
        /\ "errorMessage" \in DOMAIN ret <=> ~ret.isValid

\* C24 happens: validate was called on a partial plate detectFormat
\* classifies
C24_Witness ==
    /\ op = "validate"
    /\ Len(clean) < 7
    /\ detectFormat(input) # Null
    /\ ret.format = Null

\* C25: detectFormat, applyMask and the isValid and format of validate
\* depend on the normalized form of the input only: the result on s is the
\* result on the normalized form of s.
C25_DependsOnNormalizedOnly ==
    /\ op = "detectFormat" => ret = detectFormat(clean)
    /\ op = "applyMask" => ret = applyMask(clean, format)
    /\ op = "validate" =>
         /\ ret.isValid = validate(clean).isValid
         /\ ret.format = validate(clean).format

\* C25 happens: a plate typed in lower case and with its hyphen was accepted
C25_Witness ==
    /\ op = "validate"
    /\ Len(input) = 8
    /\ \E i \in DOMAIN input : input[i] \in LowerAZ
    /\ ret.isValid

C27_FallbackReturnsExpired ==
    (reader.op = "getAllCars" /\ reader.pc = "done" /\ reader.netFailed) =>
        IF reader.get.entry = None
        THEN reader.error
        ELSE ~reader.error /\ reader.result = Some(reader.get.entry[1].data)

\* C27 fails: the request failed, the catch block found an expired list in
\* the cache, and getAllCars threw the error
C27_Witness ==
    /\ reader.op = "getAllCars"
    /\ reader.pc = "done"
    /\ reader.netFailed
    /\ reader.get.entry # None
    /\ reader.error

C29_NoStaleListLeft ==
    (/\ reader.op = "getAllCars"
     /\ reader.pc = "done"
     /\ writer.pc = "done"
     /\ ~writer.error) =>
        \/ storage[CarsKey] = None
        \/ storage[CarsKey][1].data >= writer.rev[1]

\* C29 fails: both calls have ended and the cache holds a list older than
\* the mutation
C29_Witness ==
    /\ reader.op = "getAllCars"
    /\ reader.pc = "done"
    /\ writer.pc = "done"
    /\ ~writer.error
    /\ storage[CarsKey] # None
    /\ storage[CarsKey][1].data < writer.rev[1]

====
